---- MODULE Spec2Model ----
(***************************************************************************)
(* Model of GenerateStopPairs.py ("Generate Transit Lines and Stops").     *)
(*                                                                         *)
(* Text values (stop ids, SourceOIDkey strings) are sequences of atoms;    *)
(* the atom " , " is the delimiter the script puts between the parts of a  *)
(* SourceOIDkey and splits on.  Python values whose type matters are       *)
(* tagged pairs: <<"int", n>>, <<"str", text>>, <<"bool", 1>>,             *)
(* <<"long", n>>, <<"none", 0>>.  A Python dict that the script iterates   *)
(* over is a sequence of <<key, value>> pairs, iterated in insertion       *)
(* order.                                                                  *)
(***************************************************************************)
EXTENDS Integers, Sequences, FiniteSets, TLC

VARIABLES
    RouteDict,            \* {route_id: route_type}, as read from the routes table
    trips,                \* rows (trip_id, route_id) of the trips table
    stop_times,           \* trip_id -> rows (stop_id, arrival, departure) by stop_sequence
    frequencies,          \* rows (trip_id, start_time, end_time, headway_secs)
    stoplatlon_dict,      \* {stop_id: geometry} of the stops written to the stops FC
    pc,                   \* position of the script
    trip_routetype_dict,  \* {trip_id: route_type}
    frequencies_dict,     \* {trip_id: [[start_time, end_time, headway_secs], ...]}
    linefeature_dict,     \* {SourceOIDkey: True}, later {SourceOIDkey: ObjectID}
    pending_trips,        \* trips Make_Rows_For_Trip has not been mapped over yet
    schedules,            \* rows of the schedules table
    StopPairs,            \* point rows of the intermediate StopPairs feature class
    TransitLines,         \* rows of the TransitLines feature class
    linefeatures,         \* rows of the linefeatures table
    warnings,             \* arcpy.AddWarning calls, in order
    errors                \* arcpy.AddError calls, in order

vars == <<RouteDict, trips, stop_times, frequencies, stoplatlon_dict, pc,
          trip_routetype_dict, frequencies_dict, linefeature_dict, pending_trips,
          schedules, StopPairs, TransitLines, linefeatures, warnings, errors>>

inputs == <<RouteDict, trips, stop_times, frequencies, stoplatlon_dict>>

-----------------------------------------------------------------------------
(* Bounds of the inputs.                                                   *)

MaxVisits == 3
MaxTime == 2
MaxHeadway == 2

-----------------------------------------------------------------------------
(* Python values.                                                          *)

DELIM == " , "

PyInt(n) == <<"int", n>>
PyStr(s) == <<"str", s>>
PyLong(n) == <<"long", n>>
PyTrue == <<"bool", 1>>
PyNone == <<"none", 0>>

\* The decimal numerals the model's route types are written with.
Numerals == ("1" :> 1) @@ ("3" :> 3) @@ ("100" :> 100)

\* "%s" % v
Str(v) ==
    IF v[1] = "str" THEN v[2]
    ELSE <<CHOOSE a \in DOMAIN Numerals : Numerals[a] = v[2]>>

\* int(text) succeeds (no ValueError)
IntParses(text) == Len(text) = 1 /\ text[1] \in DOMAIN Numerals

\* int(text)
IntOf(text) == Numerals[text[1]]

\* text.split(" , ")
RECURSIVE Split(_)
Split(text) ==
    IF \A i \in 1..Len(text) : text[i] # DELIM
    THEN <<text>>
    ELSE LET i == CHOOSE j \in 1..Len(text) :
                      text[j] = DELIM /\ \A k \in 1..(j - 1) : text[k] # DELIM
         IN  <<SubSeq(text, 1, i - 1)>> \o Split(SubSeq(text, i + 1, Len(text)))

\* range() that takes its stop value in: a tick at the end of the window.
RECURSIVE PyRange_Inclusive(_, _, _)
PyRange_Inclusive(start, stop, step) ==
    IF start > stop THEN <<>>
    ELSE <<start>> \o PyRange_Inclusive(start + step, stop, step)

\* range(start, stop, step) for step > 0
RECURSIVE PyRange(_, _, _)
PyRange(start, stop, step) ==
    IF start >= stop THEN <<>>
    ELSE <<start>> \o PyRange(start + step, stop, step)

\* int(round(x, 0)) of a whole number of seconds
IntRound(x) == x

-----------------------------------------------------------------------------
(* Dictionaries iterated by the script: sequences of <<key, value>>.       *)

DictKeys(d) == {d[i][1] : i \in 1..Len(d)}

DictHas(d, k) == \E i \in 1..Len(d) : d[i][1] = k

DictGet(d, k) == d[CHOOSE i \in 1..Len(d) : d[i][1] = k][2]

\* d[k] = v that adds an entry whether or not the key is there.
DictSet_Append(d, k, v) == Append(d, <<k, v>>)

\* d[k] = v
DictSet(d, k, v) ==
    IF DictHas(d, k)
    THEN [i \in 1..Len(d) |-> IF d[i][1] = k THEN <<k, v>> ELSE d[i]]
    ELSE Append(d, <<k, v>>)

\* del d[k]
DictDel(d, k) == SelectSeq(d, LAMBDA e : e[1] # k)

-----------------------------------------------------------------------------
(* Schedule rows: Make_StopsTimes_Rows, Make_Frequency_Rows.               *)

\* "%s , %s , %s" % (start_stop, end_stop, route_type)
SourceOIDkey(start_stop, end_stop, route_type) ==
    start_stop \o <<DELIM>> \o end_stop \o <<DELIM>> \o Str(route_type)

\* The loop of Make_StopsTimes_Rows over stop_times[1:].
RECURSIVE StopsTimes_Loop(_, _, _, _, _, _, _)
StopsTimes_Loop(trip_id, route_type, rest, previous_stop, start_time, rows, dict) ==
    IF rest = <<>> THEN [rows |-> rows, dict |-> dict, raised |-> FALSE]
    ELSE LET st == Head(rest)
             stop_id == st[1]
             arrival_time == st[2]
             departure_time == st[3]
             end_time == arrival_time
             key == SourceOIDkey(previous_stop, stop_id, route_type)
         IN  StopsTimes_Loop(trip_id, route_type, Tail(rest), stop_id, departure_time,
                             Append(rows, <<key, start_time, end_time, trip_id>>),
                             DictSet(dict, key, PyTrue))

\* The loop run over stop_times instead of stop_times[1:].
Make_StopsTimes_Rows_WholeList(trip_id, stop_time_data) ==
    IF Len(stop_time_data) < 2
    THEN [rows |-> <<>>, dict |-> linefeature_dict, raised |-> FALSE]
    ELSE StopsTimes_Loop(trip_id, trip_routetype_dict[trip_id], stop_time_data,
                         stop_time_data[1][1], stop_time_data[1][3],
                         <<>>, linefeature_dict)

Make_StopsTimes_Rows(trip_id, stop_time_data) ==
    IF Len(stop_time_data) < 2
    THEN [rows |-> <<>>, dict |-> linefeature_dict, raised |-> FALSE]
    ELSE StopsTimes_Loop(trip_id, trip_routetype_dict[trip_id], Tail(stop_time_data),
                         stop_time_data[1][1], stop_time_data[1][3],
                         <<>>, linefeature_dict)

\* The rows one window adds for one segment: the loop over range(...).
WindowRows(key, window, start_time_along_trip, end_time_along_trip, trip_id) ==
    LET ticks == PyRange(IntRound(window[1]), IntRound(window[2]), window[3])
    IN  [n \in 1..Len(ticks) |->
            <<key, ticks[n] + start_time_along_trip,
              ticks[n] + end_time_along_trip, trip_id>>]

\* The loop over frequencies_dict[trip_id] for one segment.
RECURSIVE Windows_Loop(_, _, _, _, _)
Windows_Loop(key, windows, start_time_along_trip, end_time_along_trip, trip_id) ==
    IF windows = <<>> THEN <<>>
    ELSE WindowRows(key, Head(windows), start_time_along_trip,
                    end_time_along_trip, trip_id)
         \o Windows_Loop(key, Tail(windows), start_time_along_trip,
                         end_time_along_trip, trip_id)

\* The loop of Make_Frequency_Rows over stop_times[1:].
RECURSIVE Frequency_Loop(_, _, _, _, _, _, _, _)
Frequency_Loop(trip_id, route_type, first_start, rest, previous_stop, start_time, rows, dict) ==
    IF rest = <<>> THEN [rows |-> rows, dict |-> dict, raised |-> FALSE]
    ELSE LET st == Head(rest)
             stop_id == st[1]
             arrival_time == st[2]
             departure_time == st[3]
             first_trip_initial_start_time == first_start
             start_time_along_trip == start_time - first_trip_initial_start_time
             end_time_along_trip == arrival_time - first_trip_initial_start_time
             key == SourceOIDkey(previous_stop, stop_id, route_type)
         IN  Frequency_Loop(trip_id, route_type, first_trip_initial_start_time,
                            Tail(rest), stop_id, departure_time,
                            rows \o Windows_Loop(key, frequencies_dict[trip_id],
                                                 start_time_along_trip,
                                                 end_time_along_trip, trip_id),
                            DictSet(dict, key, PyTrue))

\* range() raises ValueError on a step of 0, in the first segment's window loop.
Make_Frequency_Rows(trip_id, stop_time_data) ==
    IF Len(stop_time_data) < 2
    THEN [rows |-> <<>>, dict |-> linefeature_dict, raised |-> FALSE]
    ELSE IF \E n \in 1..Len(frequencies_dict[trip_id]) :
                frequencies_dict[trip_id][n][3] = 0
    THEN [rows |-> <<>>, dict |-> linefeature_dict, raised |-> TRUE]
    ELSE Frequency_Loop(trip_id, trip_routetype_dict[trip_id], stop_time_data[1][3],
                        Tail(stop_time_data), stop_time_data[1][1],
                        stop_time_data[1][3], <<>>, linefeature_dict)

\* Every trip expanded from its stop times, frequencies or not.
Make_Rows_For_Trip_Static(trip_id) ==
    Make_StopsTimes_Rows(trip_id, stop_times[trip_id])

Make_Rows_For_Trip(trip_id) ==
    IF trip_id \in DOMAIN frequencies_dict
    THEN Make_Frequency_Rows(trip_id, stop_times[trip_id])
    ELSE Make_StopsTimes_Rows(trip_id, stop_times[trip_id])

\* The rows as the schedules table holds them: its SourceOID column is not set.
Insert_Schedules(rows) ==
    [n \in 1..Len(rows) |->
        [SourceOIDKey |-> rows[n][1], start_time |-> rows[n][2],
         end_time |-> rows[n][3], trip_id |-> rows[n][4], SourceOID |-> PyNone]]

-----------------------------------------------------------------------------
(* Reference tables: the duplicate check, trip_routetype_dict,             *)
(* frequencies_dict.                                                       *)

\* The duplicate check with "having count(*) > 2".
tripDuplicateFetch_MoreThanTwo(trip_rows) ==
    LET count(t) == Cardinality({n \in 1..Len(trip_rows) : trip_rows[n][1] = t})
    IN  {<<trip_rows[n][1], count(trip_rows[n][1])>> :
            n \in {m \in 1..Len(trip_rows) : count(trip_rows[m][1]) > 2}}

\* SELECT trip_id, count(*) from trips group by trip_id having count(*) > 1
tripDuplicateFetch(trip_rows) ==
    LET count(t) == Cardinality({n \in 1..Len(trip_rows) : trip_rows[n][1] = t})
    IN  {<<trip_rows[n][1], count(trip_rows[n][1])>> :
            n \in {m \in 1..Len(trip_rows) : count(trip_rows[m][1]) > 1}}

\* One AddError per duplicated trip_id.
RECURSIVE DuplicateErrors(_)
DuplicateErrors(tripdups) ==
    IF tripdups = {} THEN <<>>
    ELSE LET tripdup == CHOOSE d \in tripdups : TRUE
         IN  <<<<"duplicate trip_id", tripdup>>>> \o DuplicateErrors(tripdups \ {tripdup})

\* The loop over the trips table that fills trip_routetype_dict.
RECURSIVE TripRouteType_Loop(_, _, _)
TripRouteType_Loop(rest, dict, warned) ==
    IF rest = <<>> THEN [dict |-> dict, warnings |-> warned]
    ELSE LET trip == Head(rest)
             others == [t \in DOMAIN dict \ {trip[1]} |-> dict[t]]
         IN  IF trip[2] \in DOMAIN RouteDict
             THEN TripRouteType_Loop(Tail(rest),
                                     others @@ (trip[1] :> RouteDict[trip[2]]), warned)
             ELSE TripRouteType_Loop(Tail(rest),
                                     others @@ (trip[1] :> PyInt(100)),
                                     Append(warned, <<"unknown route_id", trip[1]>>))

\* The loop without the check of the headway: a window of headway 0 is kept.
RECURSIVE Frequencies_Loop_KeepZero(_, _, _)
Frequencies_Loop_KeepZero(rest, dict, warned) ==
    IF rest = <<>> THEN [dict |-> dict, warnings |-> warned]
    ELSE LET freq == Head(rest)
             trip_id == freq[1]
             trip_data == <<freq[2], freq[3], freq[4]>>
         IN  IF trip_id \in DOMAIN dict
             THEN Frequencies_Loop_KeepZero(Tail(rest),
                                            [dict EXCEPT ![trip_id] = Append(@, trip_data)],
                                            warned)
             ELSE Frequencies_Loop_KeepZero(Tail(rest),
                                            dict @@ (trip_id :> <<trip_data>>), warned)

\* The loop over the frequencies table that fills frequencies_dict.
RECURSIVE Frequencies_Loop(_, _, _)
Frequencies_Loop(rest, dict, warned) ==
    IF rest = <<>> THEN [dict |-> dict, warnings |-> warned]
    ELSE LET freq == Head(rest)
             trip_id == freq[1]
             trip_data == <<freq[2], freq[3], freq[4]>>
         IN  IF freq[4] = 0
             THEN Frequencies_Loop(Tail(rest), dict,
                                   Append(warned, <<"headway of 0 seconds", trip_id>>))
             ELSE IF trip_id \in DOMAIN dict
             THEN Frequencies_Loop(Tail(rest),
                                   [dict EXCEPT ![trip_id] = Append(@, trip_data)],
                                   warned)
             ELSE Frequencies_Loop(Tail(rest), dict @@ (trip_id :> <<trip_data>>),
                                   warned)

-----------------------------------------------------------------------------
(* Stop pairs, lines, route types, linefeatures rows, SourceOID.           *)

\* The loop over linefeature_dict that writes the StopPairs points.
RECURSIVE StopPairs_Loop(_, _, _, _)
StopPairs_Loop(rest, points, badStops, badkeys) ==
    IF rest = <<>> THEN [points |-> points, badStops |-> badStops, badkeys |-> badkeys]
    ELSE LET key == Head(rest)[1]
             stopPair == Split(key)
             stop1 == stopPair[1]
             stop2 == stopPair[2]
         IN  IF stop1 \notin DOMAIN stoplatlon_dict
             THEN StopPairs_Loop(Tail(rest), points, Append(badStops, stop1),
                                 Append(badkeys, key))
             ELSE IF stop2 \notin DOMAIN stoplatlon_dict
             THEN StopPairs_Loop(Tail(rest), points, Append(badStops, stop2),
                                 Append(badkeys, key))
             ELSE StopPairs_Loop(Tail(rest),
                                 points \o <<<<stoplatlon_dict[stop1], stop1, key, 1>>,
                                             <<stoplatlon_dict[stop2], stop2, key, 2>>>>,
                                 badStops, badkeys)

\* for key in badkeys: del linefeature_dict[key]
RemoveBadKeys(dict, badkeys) ==
    SelectSeq(dict, LAMBDA e : \A n \in 1..Len(badkeys) : badkeys[n] # e[1])

\* arcpy.management.PointsToLine(outStopPairsFC, outLinesFC, "pair_id", "sequence"):
\* one line per pair_id, through its points in sequence order; ObjectIDs count
\* from 1.
PointsToLine(points) ==
    LET firsts == SelectSeq([n \in 1..Len(points) |-> n],
                            LAMBDA n : \A m \in 1..(n - 1) : points[m][3] # points[n][3])
        geom(pair_id, sequence) ==
            points[CHOOSE n \in 1..Len(points) :
                      points[n][3] = pair_id /\ points[n][4] = sequence][1]
        length(pair_id) ==
            IF geom(pair_id, 1) >= geom(pair_id, 2)
            THEN geom(pair_id, 1) - geom(pair_id, 2)
            ELSE geom(pair_id, 2) - geom(pair_id, 1)
    IN  [n \in 1..Len(firsts) |->
            [pair_id |-> points[firsts[n]][3], OID |-> n,
             Shape_Length |-> length(points[firsts[n]][3]),
             route_type |-> PyNone, route_type_text |-> PyNone]]

\* GTFS route_type information
route_type_dict ==
    [n \in 0..7 |->
        <<"Tram, Streetcar, Light rail", "Subway, Metro", "Rail", "Bus", "Ferry",
          "Cable car", "Gondola, Suspended cable car", "Funicular">>[n + 1]]

\* The route type cur4 reads back from a pair_id: an int, or the text left as it is.
LineRouteType(pair_id) ==
    LET pair_id_list == Split(pair_id)
    IN  IF IntParses(pair_id_list[3]) THEN PyInt(IntOf(pair_id_list[3]))
        ELSE PyStr(pair_id_list[3])

\* The row cur4 writes back for one line.
UpdateLineRow(row) ==
    LET route_type == LineRouteType(row.pair_id)
        route_type_text ==
            IF route_type[1] = "int" /\ route_type[2] \in DOMAIN route_type_dict
            THEN PyStr(<<route_type_dict[route_type[2]]>>)
            ELSE PyStr(<<"Other / Type not specified (">> \o Str(route_type) \o <<")">>)
    IN  [row EXCEPT !.route_type = IF route_type[1] # "int" THEN PyNone ELSE route_type,
                    !.route_type_text = route_type_text]

\* linefeature_dict[row[0]] = long(row[3]), for every line
RECURSIVE AddObjectIDs(_, _)
AddObjectIDs(dict, rows) ==
    IF rows = <<>> THEN dict
    ELSE AddObjectIDs(DictSet(dict, Head(rows).pair_id, PyLong(Head(rows).OID)),
                      Tail(rows))

\* The row with a route type that is no number left as the text it is.
retrieve_linefeatures_info_KeepText(in_key) ==
    LET SourceOID == DictGet(linefeature_dict, in_key)
        pair_id_list == Split(in_key)
        route_type == IF IntParses(pair_id_list[3]) THEN PyInt(IntOf(pair_id_list[3]))
                      ELSE PyStr(pair_id_list[3])
    IN  <<SourceOID, pair_id_list[1], pair_id_list[2], route_type>>

retrieve_linefeatures_info(in_key) ==
    LET SourceOID == DictGet(linefeature_dict, in_key)
        pair_id_list == Split(in_key)
        from_stop == pair_id_list[1]
        to_stop == pair_id_list[2]
        route_type == IF IntParses(pair_id_list[3]) THEN PyInt(IntOf(pair_id_list[3]))
                      ELSE PyStr(<<"NULL">>)
    IN  <<SourceOID, from_stop, to_stop, route_type>>

\* The lookup with no -1 for a key that is gone: the SourceOID stays unset.
getSourceOID_NoSentinel(v) ==
    IF DictHas(linefeature_dict, v) THEN DictGet(linefeature_dict, v) ELSE PyNone

\* lambda v: linefeature_dict[v] if v in linefeature_dict else -1
getSourceOID(v) ==
    IF DictHas(linefeature_dict, v) THEN DictGet(linefeature_dict, v) ELSE PyInt(-1)

\* The update that writes the ObjectID over the key it was looked up by.
SetSourceOID_Replace(rows) ==
    [n \in 1..Len(rows) |->
        [rows[n] EXCEPT !.SourceOID = getSourceOID(rows[n].SourceOIDKey),
                        !.SourceOIDKey = getSourceOID(rows[n].SourceOIDKey)]]

\* UPDATE schedules SET SourceOID = getSourceOID(SourceOIDKey)
SetSourceOID(rows) ==
    [n \in 1..Len(rows) |->
        [rows[n] EXCEPT !.SourceOID = getSourceOID(rows[n].SourceOIDKey)]]

-----------------------------------------------------------------------------
(* Inputs.                                                                 *)

A == <<"A">>
B == <<"B">>
AA == <<"A", DELIM, "A">>       \* the stop id "A , A"

StopIds == {A, B, AA}
TripIds == {"T1", "T2"}

\* routes table: R1 is a bus route, R2 has a route_type that is no number.
Routes == ("R1" :> PyInt(3)) @@ ("R2" :> PyStr(<<"X">>))

\* trips tables: T1 on R1, and a second row: T2 on a known or an unknown route, or
\* T1 once more.
TripTables ==
    {<<<<"T1", "R1">>, row>> :
        row \in {<<"T2", "R1">>, <<"T2", "R2">>, <<"T2", "R9">>, <<"T1", "R1">>}}

\* Stop visits along a path, with a dwell of one second at every stop.
Timed(path, first_arrival) ==
    [k \in 1..Len(path) |->
        <<path[k], first_arrival + 2 * (k - 1), first_arrival + 2 * (k - 1) + 1>>]

Paths == UNION {[1..n -> StopIds] : n \in 0..MaxVisits}

\* The stops feature class: all stops apart; A and B at one place; B or "A , A"
\* not in stops.txt.
StopTables ==
    {(A :> 1) @@ (B :> 2) @@ (AA :> 3),
     (A :> 1) @@ (B :> 1) @@ (AA :> 3),
     (A :> 1) @@ (AA :> 3),
     (A :> 1) @@ (B :> 2)}

Windows == (0..MaxTime) \X (0..MaxTime) \X (0..MaxHeadway)

\* frequencies tables of at most two rows for one trip
FrequencyTables(trip_id) ==
    {<<>>}
    \cup {<<<<trip_id, w[1], w[2], w[3]>>>> : w \in Windows}
    \cup {<<<<trip_id, w[1], w[2], w[3]>>, <<trip_id, v[1], v[2], v[3]>>>> :
            w \in Windows, v \in Windows}

Alternating(n) == [k \in 1..n |-> IF k % 2 = 1 THEN A ELSE B]

\* Networks: any path for T1, a path of one segment for T2, any trips and stops
\* table, T1 with or without a frequency window.
InitNetwork ==
    /\ trips \in TripTables
    /\ \E p1 \in Paths, p2 \in {<<A, B>>, <<B, AA>>, <<AA, A>>} :
           stop_times = ("T1" :> Timed(p1, 0)) @@ ("T2" :> Timed(p2, 0))
    /\ stoplatlon_dict \in StopTables
    /\ frequencies \in {<<>>, <<<<"T1", 0, 2, 1>>>>}

\* Schedules: T1 runs A to B once, T2 runs between A and B and has any
\* frequencies table.
InitSchedule ==
    /\ trips = <<<<"T1", "R1">>, <<"T2", "R1">>>>
    /\ \E n \in 0..MaxVisits :
           stop_times = ("T1" :> Timed(<<A, B>>, 0)) @@ ("T2" :> Timed(Alternating(n), 1))
    /\ stoplatlon_dict = (A :> 1) @@ (B :> 2) @@ (AA :> 3)
    /\ frequencies \in FrequencyTables("T2")

Init ==
    /\ RouteDict = Routes
    /\ InitNetwork \/ InitSchedule
    /\ pc = "tripdups"
    /\ trip_routetype_dict = <<>>
    /\ frequencies_dict = <<>>
    /\ linefeature_dict = <<>>
    /\ pending_trips = {}
    /\ schedules = <<>>
    /\ StopPairs = <<>>
    /\ TransitLines = <<>>
    /\ linefeatures = <<>>
    /\ warnings = <<>>
    /\ errors = <<>>

-----------------------------------------------------------------------------
(* The steps of the script.                                                *)

\* Lines 146-155 and the handler of CustomError, lines 521-523.
CheckTripDuplicates ==
    /\ pc = "tripdups"
    /\ LET tripdups == tripDuplicateFetch(trips)
       IN  IF tripdups # {}
           THEN /\ errors' = <<<<"invalid trips table", tripdups>>>>
                                 \o DuplicateErrors(tripdups)
                                 \o <<<<"failed", {}>>>>
                /\ pc' = "failed"
           ELSE /\ pc' = "trips"
                /\ UNCHANGED errors
    /\ UNCHANGED <<inputs, trip_routetype_dict, frequencies_dict, linefeature_dict,
                   pending_trips, schedules, StopPairs, TransitLines, linefeatures,
                   warnings>>

\* Lines 157-170.
MakeTripRouteTypeDict ==
    /\ pc = "trips"
    /\ LET made == TripRouteType_Loop(trips, <<>>, warnings)
       IN  /\ trip_routetype_dict' = made.dict
           /\ warnings' = made.warnings
    /\ pc' = "frequencies"
    /\ UNCHANGED <<inputs, frequencies_dict, linefeature_dict, pending_trips,
                   schedules, StopPairs, TransitLines, linefeatures, errors>>

\* Lines 175-189; line 366 and the keys() of line 368.
MakeFrequenciesDict ==
    /\ pc = "frequencies"
    /\ LET made == Frequencies_Loop(frequencies, <<>>, warnings)
       IN  /\ frequencies_dict' = made.dict
           /\ warnings' = made.warnings
    /\ linefeature_dict' = <<>>
    /\ pending_trips' = DOMAIN trip_routetype_dict
    /\ pc' = IF DOMAIN trip_routetype_dict = {} THEN "stoppairs" ELSE "schedules"
    /\ UNCHANGED <<inputs, trip_routetype_dict, schedules, StopPairs, TransitLines,
                   linefeatures, errors>>

\* Lines 347-370: one trip of the map over trip_routetype_dict.keys(), its rows
\* inserted into schedules.
MakeRowsForTrip ==
    /\ pc = "schedules"
    /\ \E trip_id \in pending_trips :
          LET made == Make_Rows_For_Trip(trip_id)
          IN  IF made.raised
              THEN /\ pc' = "failed"
                   /\ errors' = Append(errors, <<"failed", {}>>)
                   /\ UNCHANGED <<linefeature_dict, schedules, pending_trips>>
              ELSE /\ linefeature_dict' = made.dict
                   /\ schedules' = schedules \o Insert_Schedules(made.rows)
                   /\ pending_trips' = pending_trips \ {trip_id}
                   /\ pc' = IF pending_trips' = {} THEN "stoppairs" ELSE "schedules"
                   /\ UNCHANGED errors
    /\ UNCHANGED <<inputs, trip_routetype_dict, frequencies_dict, StopPairs,
                   TransitLines, linefeatures, warnings>>

\* Lines 386-421.
WriteStopPairs ==
    /\ pc = "stoppairs"
    /\ LET made == StopPairs_Loop(linefeature_dict, <<>>, <<>>, <<>>)
       IN  /\ StopPairs' = made.points
           /\ warnings' = IF made.badStops # <<>>
                          THEN Append(warnings,
                                      <<"stops not in stops.txt",
                                        {made.badStops[n] : n \in 1..Len(made.badStops)}>>)
                          ELSE warnings
           /\ linefeature_dict' = RemoveBadKeys(linefeature_dict, made.badkeys)
    /\ pc' = "lines"
    /\ UNCHANGED <<inputs, trip_routetype_dict, frequencies_dict, pending_trips,
                   schedules, TransitLines, linefeatures, errors>>

\* Lines 426-431.
MakeLines ==
    /\ pc = "lines"
    /\ TransitLines' = PointsToLine(StopPairs)
    /\ StopPairs' = <<>>
    /\ pc' = "zerolength"
    /\ UNCHANGED <<inputs, trip_routetype_dict, frequencies_dict, linefeature_dict,
                   pending_trips, schedules, linefeatures, warnings, errors>>

\* Lines 433-439.
DeleteZeroLengthLines ==
    /\ pc = "zerolength"
    /\ linefeature_dict' =
           SelectSeq(linefeature_dict,
                     LAMBDA e : \A n \in 1..Len(TransitLines) :
                                   TransitLines[n].pair_id = e[1]
                                       => TransitLines[n].Shape_Length # 0)
    /\ TransitLines' = SelectSeq(TransitLines, LAMBDA row : row.Shape_Length # 0)
    /\ pc' = "routetypes"
    /\ UNCHANGED <<inputs, trip_routetype_dict, frequencies_dict, pending_trips,
                   schedules, StopPairs, linefeatures, warnings, errors>>

\* Lines 441-462.
InsertRouteTypes ==
    /\ pc = "routetypes"
    /\ linefeature_dict' = AddObjectIDs(linefeature_dict, TransitLines)
    /\ TransitLines' = [n \in 1..Len(TransitLines) |-> UpdateLineRow(TransitLines[n])]
    /\ pc' = "linefeatures"
    /\ UNCHANGED <<inputs, trip_routetype_dict, frequencies_dict, pending_trips,
                   schedules, StopPairs, linefeatures, warnings, errors>>

\* Lines 467-495.
InsertLinefeatures ==
    /\ pc = "linefeatures"
    /\ linefeatures' = [n \in 1..Len(linefeature_dict) |->
                           retrieve_linefeatures_info(linefeature_dict[n][1])]
    /\ pc' = "sourceoid"
    /\ UNCHANGED <<inputs, trip_routetype_dict, frequencies_dict, linefeature_dict,
                   pending_trips, schedules, StopPairs, TransitLines, warnings, errors>>

\* Lines 500-502.
UpdateSchedules ==
    /\ pc = "sourceoid"
    /\ schedules' = SetSourceOID(schedules)
    /\ pc' = "done"
    /\ UNCHANGED <<inputs, trip_routetype_dict, frequencies_dict, linefeature_dict,
                   pending_trips, StopPairs, TransitLines, linefeatures, warnings,
                   errors>>

Next ==
    \/ CheckTripDuplicates
    \/ MakeTripRouteTypeDict
    \/ MakeFrequenciesDict
    \/ MakeRowsForTrip
    \/ WriteStopPairs
    \/ MakeLines
    \/ DeleteZeroLengthLines
    \/ InsertRouteTypes
    \/ InsertLinefeatures
    \/ UpdateSchedules

Spec == Init /\ [][Next]_vars

-----------------------------------------------------------------------------
(* What the properties below speak of.                                     *)

\* The expansion of the trips is over.
Expanded ==
    pc \in {"stoppairs", "lines", "zerolength", "routetypes", "linefeatures",
            "sourceoid", "done"}

\* The trips Make_Rows_For_Trip has been mapped over.
ProcessedTrips ==
    IF pc = "schedules" \/ Expanded THEN DOMAIN trip_routetype_dict \ pending_trips
    ELSE {}

\* The segments of a trip, by the position of their first visit.
Segments(t) == 1..(Len(stop_times[t]) - 1)

SegmentTuple(t, s) ==
    <<stop_times[t][s][1], stop_times[t][s + 1][1], trip_routetype_dict[t]>>

SegmentKey(t, s) ==
    SourceOIDkey(stop_times[t][s][1], stop_times[t][s + 1][1], trip_routetype_dict[t])

TraversedTuples ==
    UNION {{SegmentTuple(t, s) : s \in Segments(t)} : t \in ProcessedTrips}

TraversedKeys ==
    UNION {{SegmentKey(t, s) : s \in Segments(t)} : t \in ProcessedTrips}

\* The schedules rows of a trip on a key.
RowsOf(t, key) ==
    {n \in 1..Len(schedules) :
        schedules[n].trip_id = t /\ schedules[n].SourceOIDKey = key}

RowsOfTrip(t) == {n \in 1..Len(schedules) : schedules[n].trip_id = t}

\* The trip the step taken maps Make_Rows_For_Trip over.
Expands(t) == pc = "schedules" /\ t \in pending_trips /\ t \notin pending_trips'

\* The rows the step taken adds to schedules.
NewRows == SubSeq(schedules', Len(schedules) + 1, Len(schedules'))

\* The ticks of a window: start, start + headway, ... below end.
Ticks(window) ==
    {i \in window[1]..(window[2] - 1) : (i - window[1]) % window[3] = 0}

RECURSIVE SumSeq(_)
SumSeq(numbers) ==
    IF numbers = <<>> THEN 0 ELSE Head(numbers) + SumSeq(Tail(numbers))

HasDuplicateTripId ==
    \E i \in 1..Len(trips), j \in 1..Len(trips) : i # j /\ trips[i][1] = trips[j][1]

HasDelimiter(text) == \E i \in 1..Len(text) : text[i] = DELIM

-----------------------------------------------------------------------------
(* C1: static strategy.  Expanding a trip that is not in frequencies_dict  *)
(* and has n stop visits appends exactly max(n-1, 0) schedules rows, row i *)
(* being (key of visit i and visit i+1 and the trip's route type,          *)
(* departure of visit i, arrival of visit i+1, trip id), and registers the *)
(* keys of its segments; with fewer than 2 visits it appends no row and    *)
(* leaves linefeature_dict as it was.                                      *)

StaticRecords(t) ==
    [i \in 1..(Len(stop_times[t]) - 1) |->
        [SourceOIDKey |-> SegmentKey(t, i),
         start_time |-> stop_times[t][i][3],
         end_time |-> stop_times[t][i + 1][2],
         trip_id |-> t,
         SourceOID |-> PyNone]]

C1_StaticStep ==
    \A t \in TripIds :
        (Expands(t) /\ t \notin DOMAIN frequencies_dict)
        => /\ schedules' = schedules \o StaticRecords(t)
           /\ Len(schedules') - Len(schedules)
                 = IF Len(stop_times[t]) >= 2 THEN Len(stop_times[t]) - 1 ELSE 0
           /\ DictKeys(linefeature_dict')
                 = DictKeys(linefeature_dict) \cup {SegmentKey(t, s) : s \in Segments(t)}
           /\ Len(stop_times[t]) < 2
                 => schedules' = schedules /\ linefeature_dict' = linefeature_dict

C1_StaticRows == [][C1_StaticStep]_vars

\* A static trip of three visits has been expanded into two rows, the second from
\* the departure of the second visit to the arrival of the third.
C1_Witness ==
    /\ pc = "stoppairs"
    /\ \E t \in TripIds \ DOMAIN frequencies_dict :
          /\ Len(stop_times[t]) = 3
          /\ Cardinality(RowsOfTrip(t)) = 2
          /\ \E n \in RowsOfTrip(t) :
                /\ schedules[n].start_time = stop_times[t][2][3]
                /\ schedules[n].end_time = stop_times[t][3][2]
                /\ schedules[n].SourceOIDKey = SegmentKey(t, 2)

-----------------------------------------------------------------------------
(* C2: frequency strategy.  Expanding a trip that is in frequencies_dict   *)
(* appends, for every segment, every window of the trip and every tick i   *)
(* of the window, one row with start i + (departure of the segment's first *)
(* visit - first departure of the trip) and end i + (arrival at its second *)
(* visit - first departure), and nothing else: no row carries the trip's   *)
(* stop times as they stand.                                               *)

FrequencyTriples(t) ==
    UNION {{<<s, w, i>> : i \in Ticks(frequencies_dict[t][w])} :
              s \in Segments(t), w \in 1..Len(frequencies_dict[t])}

FrequencyRecord(t, s, i) ==
    [SourceOIDKey |-> SegmentKey(t, s),
     start_time |-> i + (stop_times[t][s][3] - stop_times[t][1][3]),
     end_time |-> i + (stop_times[t][s + 1][2] - stop_times[t][1][3]),
     trip_id |-> t,
     SourceOID |-> PyNone]

C2_FrequencyStep ==
    \A t \in TripIds :
        (Expands(t) /\ t \in DOMAIN frequencies_dict)
        => /\ SubSeq(schedules', 1, Len(schedules)) = schedules
           /\ \A r \in {NewRows[n] : n \in 1..Len(NewRows)}
                       \cup {FrequencyRecord(t, x[1], x[3]) : x \in FrequencyTriples(t)} :
                 Cardinality({n \in 1..Len(NewRows) : NewRows[n] = r})
                    = Cardinality({x \in FrequencyTriples(t) :
                                      FrequencyRecord(t, x[1], x[3]) = r})

C2_FrequencyRows == [][C2_FrequencyStep]_vars

\* A frequency trip of two segments and two windows has been expanded, one of its
\* rows starting later than any of its stop times.
C2_Witness ==
    /\ pc = "stoppairs"
    /\ \E t \in DOMAIN frequencies_dict :
          /\ Len(frequencies_dict[t]) = 2
          /\ Len(stop_times[t]) = 3
          /\ Cardinality(RowsOfTrip(t)) >= 4
          /\ \E n \in RowsOfTrip(t) :
                schedules[n].start_time # stop_times[t][1][3]
                /\ schedules[n].start_time # stop_times[t][2][3]

-----------------------------------------------------------------------------
(* C3: the number of rows of a frequency trip on a segment.                *)

FloorDiv(a, b) == a \div b
CeilDiv(a, b) == (a + b - 1) \div b

\* Every window of the trip has start <= end (and a headway above 0).
ForwardWindows(t) ==
    \A w \in 1..Len(frequencies_dict[t]) :
        frequencies_dict[t][w][1] <= frequencies_dict[t][w][2]
        /\ frequencies_dict[t][w][3] > 0

\* The rows of the trip on the key of each of its segments number the segments of
\* the trip with that key times the sum of perWindow over the trip's windows.
RowsPerSegment(t, perWindow(_)) ==
    \A s \in Segments(t) :
        Cardinality(RowsOf(t, SegmentKey(t, s)))
           = Cardinality({u \in Segments(t) : SegmentKey(t, u) = SegmentKey(t, s)})
             * SumSeq([w \in 1..Len(frequencies_dict[t]) |->
                          perWindow(frequencies_dict[t][w])])

\* C3 as claimed: after the expansion, for every frequency trip whose windows have
\* start <= end and headway > 0, the rows of each segment number the sum over the
\* windows of floor((end - start) / headway).
C3_FloorCount ==
    Expanded =>
        \A t \in DOMAIN frequencies_dict :
            ForwardWindows(t) =>
                LET floor(window) == FloorDiv(window[2] - window[1], window[3])
                IN  RowsPerSegment(t, floor)

\* C3 as amended: the rows of each segment number the sum over the windows of
\* ceiling((end - start) / headway), the number of ticks start, start + headway,
\* ... below end.
C3_CeilingCount ==
    Expanded =>
        \A t \in DOMAIN frequencies_dict :
            ForwardWindows(t) =>
                LET ceiling(window) == CeilDiv(window[2] - window[1], window[3])
                IN  RowsPerSegment(t, ceiling)

\* A frequency trip with a segment has been expanded over a window whose length
\* is no multiple of its headway.
C3_Witness ==
    /\ Expanded
    /\ \E t \in DOMAIN frequencies_dict :
          /\ ForwardWindows(t)
          /\ Segments(t) # {}
          /\ \E w \in 1..Len(frequencies_dict[t]) :
                (frequencies_dict[t][w][2] - frequencies_dict[t][w][1])
                    % frequencies_dict[t][w][3] # 0
          /\ RowsOfTrip(t) # {}

-----------------------------------------------------------------------------
(* C4: deduplication of keys.  While and after the trips are expanded, in  *)
(* whatever order, linefeature_dict holds the key of every (from-stop,     *)
(* to-stop, route type) traversed so far and no other key, one entry for   *)
(* each however many trips, ticks or rows use it, never more entries than  *)
(* tuples traversed, each with the value True; and a step that expands a   *)
(* trip whose keys are all there leaves it unchanged.                      *)

C4_Registry ==
    (pc \in {"schedules", "stoppairs"}) =>
        /\ DictKeys(linefeature_dict) = TraversedKeys
        /\ \A tuple \in TraversedTuples :
              Cardinality({n \in 1..Len(linefeature_dict) :
                              linefeature_dict[n][1]
                                 = SourceOIDkey(tuple[1], tuple[2], tuple[3])}) = 1
        /\ Len(linefeature_dict) <= Cardinality(TraversedTuples)
        /\ \A n \in 1..Len(linefeature_dict) : linefeature_dict[n][2] = PyTrue

C4_RegisterAgain ==
    \A t \in TripIds :
        (Expands(t) /\ \A s \in Segments(t) : DictHas(linefeature_dict, SegmentKey(t, s)))
        => linefeature_dict' = linefeature_dict

C4_OneEntryPerTuple == []C4_Registry /\ [][C4_RegisterAgain]_vars

\* Two trips have traversed the same tuple, one of them at more than one tick, and
\* its key has several rows.
C4_Witness ==
    /\ pc = "stoppairs"
    /\ \E t \in ProcessedTrips, u \in ProcessedTrips :
          /\ t # u
          /\ u \in DOMAIN frequencies_dict
          /\ \E s \in Segments(t), r \in Segments(u) :
                /\ SegmentTuple(t, s) = SegmentTuple(u, r)
                /\ RowsOf(t, SegmentKey(t, s)) # {}
                /\ Cardinality(RowsOf(u, SegmentKey(t, s))) >= 2

-----------------------------------------------------------------------------
(* C5: resolution.  When the script is done, every schedules row whose key *)
(* is still in linefeature_dict carries the ObjectID of the line of that   *)
(* key, which is what linefeature_dict holds for it, and every row whose   *)
(* key is gone (stop not found, line of length 0) carries -1; the script   *)
(* fails on no input but a trips table with a duplicate trip_id.           *)

C5_Resolved ==
    /\ pc = "failed" => HasDuplicateTripId
    /\ pc = "done" =>
          \A n \in 1..Len(schedules) :
              IF DictHas(linefeature_dict, schedules[n].SourceOIDKey)
              THEN /\ DictGet(linefeature_dict, schedules[n].SourceOIDKey)
                         = schedules[n].SourceOID
                   /\ \E m \in 1..Len(TransitLines) :
                         /\ TransitLines[m].pair_id = schedules[n].SourceOIDKey
                         /\ schedules[n].SourceOID = PyLong(TransitLines[m].OID)
              ELSE schedules[n].SourceOID = PyInt(-1)

\* The script is done with a row on a dropped key and a row on a surviving key.
C5_Witness ==
    /\ pc = "done"
    /\ \E n \in 1..Len(schedules) :
          /\ ~DictHas(linefeature_dict, schedules[n].SourceOIDKey)
          /\ schedules[n].SourceOID = PyInt(-1)
    /\ \E n \in 1..Len(schedules) :
          /\ DictHas(linefeature_dict, schedules[n].SourceOIDKey)
          /\ schedules[n].SourceOID[1] = "long"

-----------------------------------------------------------------------------
(* C6: resolution is idempotent.  When the script is done, running the     *)
(* update of schedules once more, linefeature_dict unchanged, leaves every *)
(* row (key, start, end, trip id, SourceOID) as it is, the rows set to -1  *)
(* included.                                                               *)

C6_ResolveTwice == pc = "done" => SetSourceOID(schedules) = schedules

\* The script is done with at least three rows, one set to -1 and one to an
\* ObjectID.
C6_Witness ==
    /\ pc = "done"
    /\ Len(schedules) >= 3
    /\ \E n \in 1..Len(schedules) : schedules[n].SourceOID = PyInt(-1)
    /\ \E n \in 1..Len(schedules) : schedules[n].SourceOID[1] = "long"

-----------------------------------------------------------------------------
(* C7: a frequencies row with headway 0.  The script does not fail on it;  *)
(* once frequencies_dict is built it holds, for every trip, the rows of    *)
(* the trip with another headway, in order, and there is one warning for   *)
(* every row with headway 0; after the expansion a trip with such a row    *)
(* has the rows its other windows give and none from that row (the rows of *)
(* its stop times if it has no other window).                              *)

FrequencyRowsOf(t) == SelectSeq(frequencies, LAMBDA row : row[1] = t)
ValidRowsOf(t) == SelectSeq(FrequencyRowsOf(t), LAMBDA row : row[4] # 0)

-----------------------------------------------------------------------------
(* C8: a duplicate trip_id.  With a trip_id twice in the trips table the   *)
(* script goes from the duplicate check to its failure with errors added,  *)
(* and at no time is there a schedules row, a key in linefeature_dict, a   *)
(* stop pair, a line or a linefeatures row.                                *)

C8_DuplicateAborts ==
    HasDuplicateTripId =>
        /\ pc \in {"tripdups", "failed"}
        /\ pc = "failed" => errors # <<>>
        /\ schedules = <<>>
        /\ linefeature_dict = <<>>
        /\ StopPairs = <<>>
        /\ TransitLines = <<>>
        /\ linefeatures = <<>>

\* The script has failed on a trips table with a duplicate trip_id.
C8_Witness == pc = "failed" /\ HasDuplicateTripId /\ Len(errors) >= 3

-----------------------------------------------------------------------------
(* C9: the route type written for an edge.                                 *)

\* The lines and linefeatures rows are written.
EdgesWritten == pc \in {"sourceoid", "done"}

LinesOf(key) == {m \in 1..Len(TransitLines) : TransitLines[m].pair_id = key}

LinefeaturesOf(key) ==
    {m \in 1..Len(linefeatures) : linefeatures[m][1] = DictGet(linefeature_dict, key)}

\* The route type of a trip as the claim keeps it: the integer if it is one or
\* parses as one, the text as it is otherwise.
KeptMode(route_type) ==
    IF route_type[1] = "int" THEN route_type
    ELSE IF IntParses(route_type[2]) THEN PyInt(IntOf(route_type[2]))
    ELSE route_type

-----------------------------------------------------------------------------
(* C10: at the end of the expansion every key in linefeature_dict is the   *)
(* key of at least one schedules row.                                      *)

C10_EveryKeyReferenced ==
    pc = "stoppairs" =>
        \A n \in 1..Len(linefeature_dict) :
            \E m \in 1..Len(schedules) :
                schedules[m].SourceOIDKey = linefeature_dict[n][1]

-----------------------------------------------------------------------------
(* C11: the identity of a key is the equality of its tuple.  While and     *)
(* after the trips are expanded, two traversed (from-stop, to-stop, route  *)
(* type) tuples have the same key, hence the same entry of                 *)
(* linefeature_dict, only if they are the same tuple, so that the entries  *)
(* number the tuples; and the stop pair and the linefeatures row written   *)
(* for a surviving key carry the from-stop and the to-stop of every tuple  *)
(* the key was built from, whatever text the stop ids hold.                *)

TupleKey(tuple) == SourceOIDkey(tuple[1], tuple[2], tuple[3])

C11_ExactTupleEquality ==
    /\ (pc \in {"schedules", "stoppairs"}) =>
          /\ \A x \in TraversedTuples : \A y \in TraversedTuples :
                TupleKey(x) = TupleKey(y) <=> x = y
          /\ Len(linefeature_dict) = Cardinality(TraversedTuples)
    /\ pc = "lines" =>
          \A x \in TraversedTuples : \A n \in 1..Len(StopPairs) :
              StopPairs[n][3] = TupleKey(x) =>
                  StopPairs[n][2] = IF StopPairs[n][4] = 1 THEN x[1] ELSE x[2]
    /\ EdgesWritten =>
          \A x \in TraversedTuples :
              DictHas(linefeature_dict, TupleKey(x)) =>
                  \A m \in LinefeaturesOf(TupleKey(x)) :
                      linefeatures[m][2] = x[1] /\ linefeatures[m][3] = x[2]

-----------------------------------------------------------------------------
(* C12: the missing-stop filter.  Once the stop pairs are written, the key *)
(* of every traversed tuple whose from-stop or to-stop is not in           *)
(* stoplatlon_dict is out of linefeature_dict and the key of every         *)
(* traversed tuple with both stops in it is still there; and when the      *)
(* script is done every schedules row of a trip on a segment with a stop   *)
(* that is not in stoplatlon_dict carries -1 and no ObjectID.              *)

StopsLocated(tuple) ==
    tuple[1] \in DOMAIN stoplatlon_dict /\ tuple[2] \in DOMAIN stoplatlon_dict

C12_MissingStopFilter ==
    /\ pc = "lines" =>
          \A x \in TraversedTuples :
              DictHas(linefeature_dict, TupleKey(x)) <=> StopsLocated(x)
    /\ pc = "done" =>
          \A x \in TraversedTuples :
              ~StopsLocated(x) =>
                  \A n \in 1..Len(schedules) :
                      schedules[n].SourceOIDKey = TupleKey(x)
                          => schedules[n].SourceOID = PyInt(-1)

-----------------------------------------------------------------------------
(* C13: a trip with a frequencies row of headway 0 is not in the network.  *)
(* After the expansion no schedules row carries the id of such a trip, and *)
(* every key in linefeature_dict is the key of a segment of a trip with no *)
(* such row, whether or not the trip has other windows.                    *)

HasZeroHeadway(t) ==
    \E n \in 1..Len(frequencies) : frequencies[n][1] = t /\ frequencies[n][4] = 0

C13_ZeroHeadwayTripExcluded ==
    pc = "stoppairs" =>
        /\ \A t \in ProcessedTrips : HasZeroHeadway(t) => RowsOfTrip(t) = {}
        /\ DictKeys(linefeature_dict)
              \subseteq UNION {{SegmentKey(t, s) : s \in Segments(t)} :
                                  t \in {u \in ProcessedTrips : ~HasZeroHeadway(u)}}

====
